---- MODULE Spec2Model ----
(***************************************************************************)
(* Model of package tokenizer (tokenizer.go): mongoTokenizer.Tokenize and  *)
(* mongoTokenizer.Detokenize run by uncoordinated processes against one    *)
(* MongoDB collection "tokens" with two unique sparse indexes.             *)
(* Strings are sequences of byte values; "" is << >>.                      *)
(***************************************************************************)
EXTENDS Integers, Sequences, FiniteSets, TLC

\* ---------------------------------------------------------------- bounds
NumProcs == 2
NumOriginals == 2
MaxGuid == 3
GuidStep == 37

Procs == 1..NumProcs

\* the original strings handed to Tokenize: "a", "b", ...
Originals == {<<96 + i>> : i \in 1..NumOriginals}

\* the int64 values guid.NextId() can hand out (repeats are possible)
Guids == {k * GuidStep : k \in 1..MaxGuid}

EmptyString == << >>

\* ---------------------------------------------------------------- errors
Nil == [type |-> "nil", code |-> 0, msg |-> "<nil>"]
NotFound == [type |-> "mgo.NotFound", code |-> 0, msg |-> "not found"]
TokenNotFound == [type |-> "TokenNotFound", code |-> 0, msg |-> "Token Not Found"]
DuplicateKeyCode == 11000
LastError(c) == [type |-> "*mgo.LastError", code |-> c, msg |-> "last error"]
IOError == [type |-> "io", code |-> 0, msg |-> "EOF"]
GuidError == [type |-> "guid", code |-> 0, msg |-> "guid error"]

\* failures of a query other than NotFound
FindFailures == {IOError}
\* failures of an insert other than a duplicate key
InsertFailures == {IOError, LastError(DuplicateKeyCode + 1)}
\* every store failure other than NotFound and the uniqueness conflict
OtherStoreErrors == FindFailures \cup InsertFailures

\* fmt.Sprint(v) as log.Panic applies it to an error value
Sprint(e) == e.msg

\* ---------------------------------------------------------------- strings
RECURSIVE Digits(_)
Digits(n) == IF n < 10 THEN <<48 + n>> ELSE Digits(n \div 10) \o <<48 + (n % 10)>>

\* fmt.Sprintf("%v", guid) for a non-negative int64
FormatGuid(g) == Digits(g)

Base64Char(i) ==
    IF i < 26 THEN 65 + i
    ELSE IF i < 52 THEN 97 + (i - 26)
    ELSE IF i < 62 THEN 48 + (i - 52)
    ELSE IF i = 62 THEN 43 ELSE 47

\* the padding character '='
Base64Pad == 61

RECURSIVE EncodeToString(_)
EncodeToString(src) ==
    IF Len(src) = 0 THEN << >>
    ELSE IF Len(src) = 1 THEN
        << Base64Char(src[1] \div 4), Base64Char((src[1] % 4) * 16),
           Base64Pad, Base64Pad >>
    ELSE IF Len(src) = 2 THEN
        << Base64Char(src[1] \div 4),
           Base64Char((src[1] % 4) * 16 + (src[2] \div 16)),
           Base64Char((src[2] % 16) * 4), Base64Pad >>
    ELSE
        << Base64Char(src[1] \div 4),
           Base64Char((src[1] % 4) * 16 + (src[2] \div 16)),
           Base64Char((src[2] % 16) * 4 + (src[3] \div 64)),
           Base64Char(src[3] % 64) >>
        \o EncodeToString(SubSeq(src, 4, Len(src)))

\* the token minted from a guid
MintToken(g) == EncodeToString(FormatGuid(g))

Tokens == {MintToken(g) : g \in Guids}

\* ---------------------------------------------------------------- bson
\* the key bson gives an exported struct field without a tag
BsonKey(f) == CASE f = "Text" -> "text" [] f = "Token" -> "token"

TokenRecordFields == {"Text", "Token"}

Marshal(trec) ==
    [k \in {BsonKey(f) : f \in DOMAIN trec} |->
        trec[CHOOSE f \in DOMAIN trec : BsonKey(f) = k]]

Unmarshal(doc) ==
    [f \in TokenRecordFields |->
        IF BsonKey(f) \in DOMAIN doc THEN doc[BsonKey(f)] ELSE EmptyString]

\* ---------------------------------------------------------------- store
\* variant: the index on "token" is not declared unique
IndexesTokenNotUnique ==
    { [Key |-> "original", Unique |-> TRUE, Sparse |-> TRUE],
      [Key |-> "token", Unique |-> FALSE, Sparse |-> TRUE] }

\* variant: the first unique index covers the key the text is stored under
IndexesOnText ==
    { [Key |-> "text", Unique |-> TRUE, Sparse |-> TRUE],
      [Key |-> "token", Unique |-> TRUE, Sparse |-> TRUE] }

\* the indexes NewMongoTokenizer ensures on the collection
Indexes == { [Key |-> "original", Unique |-> TRUE, Sparse |-> TRUE],
             [Key |-> "token", Unique |-> TRUE, Sparse |-> TRUE] }

HasKey(doc, k) == k \in DOMAIN doc

\* documents of coll matching the query {k: v}
Find(coll, k, v) == {d \in coll : HasKey(d, k) /\ d[k] = v}

\* would inserting doc violate a unique index
DuplicateKey(coll, doc) ==
    \E ix \in Indexes :
        /\ ix.Unique
        /\ IF HasKey(doc, ix.Key)
           THEN \E d \in coll : HasKey(d, ix.Key) /\ d[ix.Key] = doc[ix.Key]
           ELSE /\ ~ix.Sparse
                /\ \E d \in coll : ~HasKey(d, ix.Key)

\* retry[p]: the current iteration of p's loop was entered by the continue
\* after a duplicate key error
VARIABLES store, pc, op, s, err, innerErr, token, db_err, ret, panicVal, issued, retry

vars == <<store, pc, op, s, err, innerErr, token, db_err, ret, panicVal, issued, retry>>

NoRet == [val |-> EmptyString, err |-> Nil]

Init ==
    /\ store = {}
    /\ pc = [p \in Procs |-> "idle"]
    /\ op = [p \in Procs |-> "none"]
    /\ s = [p \in Procs |-> EmptyString]
    /\ err = [p \in Procs |-> Nil]
    /\ innerErr = [p \in Procs |-> Nil]
    /\ token = [p \in Procs |-> EmptyString]
    /\ db_err = [p \in Procs |-> Nil]
    /\ ret = [p \in Procs |-> NoRet]
    /\ panicVal = [p \in Procs |-> ""]
    /\ issued = {}
    /\ retry = [p \in Procs |-> FALSE]

Callable(p) == pc[p] \in {"idle", "returned"}

\* ---------------------------------------------------------------- store calls
ZeroRecord == [f \in TokenRecordFields |-> EmptyString]

\* col.Find(bson.M{k: v}).One(&result): the decoded result and the error
FindOne(coll, k, v) ==
    {[result |-> Unmarshal(d), err |-> Nil] : d \in Find(coll, k, v)}
    \cup (IF Find(coll, k, v) = {} THEN {[result |-> ZeroRecord, err |-> NotFound]} ELSE {})
    \cup {[result |-> ZeroRecord, err |-> e] : e \in FindFailures}

\* variant: the text of the record found is handed back as its token
fetchTokenText(coll, str) ==
    {[token |-> IF r.err = Nil THEN r.result.Text ELSE EmptyString, err |-> r.err] :
        r \in FindOne(coll, "original", str)}

\* fetchToken(str): the (token, err) pairs it can return
fetchToken(coll, str) ==
    {[token |-> IF r.err = Nil THEN r.result.Token ELSE EmptyString, err |-> r.err] :
        r \in FindOne(coll, "original", str)}

\* variant: the insert replaces the records of the same text (an upsert)
InsertedUpsert(coll, doc) == {d \in coll : ~(HasKey(d, "text") /\ d["text"] = doc["text"])} \cup {doc}

\* the collection after a successful col.Insert(&trec)
Inserted(coll, doc) == coll \cup {doc}

\* col.Insert(&trec): the errors it can return for the marshalled document
InsertErrors(coll, doc) ==
    (IF DuplicateKey(coll, doc) THEN {LastError(DuplicateKeyCode)} ELSE {Nil})
    \cup InsertFailures

\* variant: every *mgo.LastError is taken for a duplicate key
IsAnyLastError(e) == e.type = "*mgo.LastError"

\* e, ok := err.(*mgo.LastError); ok && e.Code == 11000
IsDuplicateKeyError(e) == e.type = "*mgo.LastError" /\ e.code = DuplicateKeyCode

\* guid.NextId(): the (guid, err) pairs it can return
NextId == {[guid |-> g, err |-> Nil] : g \in Guids} \cup {[guid |-> 0, err |-> GuidError]}

\* ---------------------------------------------------------------- Tokenize
\* entry of Tokenize(x): result, err and col are declared
TokenizeCall(p, x) ==
    /\ Callable(p)
    /\ pc' = [pc EXCEPT ![p] = "fetch"]
    /\ op' = [op EXCEPT ![p] = "Tokenize"]
    /\ s' = [s EXCEPT ![p] = x]
    /\ err' = [err EXCEPT ![p] = Nil]
    /\ innerErr' = [innerErr EXCEPT ![p] = Nil]
    /\ token' = [token EXCEPT ![p] = EmptyString]
    /\ db_err' = [db_err EXCEPT ![p] = Nil]
    /\ ret' = [ret EXCEPT ![p] = NoRet]
    /\ retry' = [retry EXCEPT ![p] = FALSE]
    /\ UNCHANGED <<store, panicVal, issued>>

\* top of the loop: token, err = t.fetchToken(s) and the two checks on err.
\* token is local to the loop body: it is redeclared here and gone (empty)
\* once the loop is left.
TokenizeFetch(p) ==
    /\ pc[p] = "fetch"
    /\ \E r \in fetchToken(store, s[p]) :
        /\ token' = [token EXCEPT ![p] = IF r.err = NotFound THEN r.token ELSE EmptyString]
        /\ err' = [err EXCEPT ![p] = r.err]
        /\ innerErr' = [innerErr EXCEPT ![p] = Nil]
        /\ retry' = [retry EXCEPT ![p] = IF r.err = NotFound THEN @ ELSE FALSE]
        /\ IF r.err = Nil
           THEN /\ pc' = [pc EXCEPT ![p] = "returned"]
                /\ ret' = [ret EXCEPT ![p] = [val |-> r.token, err |-> r.err]]
                /\ issued' = issued \cup {<<s[p], r.token>>}
           ELSE IF r.err # NotFound
           THEN /\ pc' = [pc EXCEPT ![p] = "returned"]
                /\ ret' = [ret EXCEPT ![p] = [val |-> EmptyString, err |-> r.err]]
                /\ issued' = issued
           ELSE /\ pc' = [pc EXCEPT ![p] = "mint"]
                /\ UNCHANGED <<ret, issued>>
    /\ UNCHANGED <<store, op, s, db_err, panicVal>>

\* variant: a generator failure is treated like a conflict and retried
AfterNextIdRetry(e) == IF e # Nil THEN "fetch" ELSE "insert"

\* where the loop body goes after guid, err := guid.NextId()
AfterNextId(e) == IF e # Nil THEN "panicked" ELSE "insert"

\* guid, err := guid.NextId() (a new err, local to the loop body), the
\* log.Panic on failure, and the encoding of the candidate
TokenizeMint(p) ==
    /\ pc[p] = "mint"
    /\ \E n \in NextId :
        /\ innerErr' = [innerErr EXCEPT ![p] = n.err]
        /\ pc' = [pc EXCEPT ![p] = AfterNextId(n.err)]
        /\ IF n.err # Nil
           THEN /\ panicVal' = [panicVal EXCEPT ![p] =
                        IF AfterNextId(n.err) = "panicked" THEN Sprint(n.err) ELSE @]
                /\ token' = token
           ELSE /\ token' = [token EXCEPT ![p] = MintToken(n.guid)]
                /\ panicVal' = panicVal
    /\ UNCHANGED <<store, op, s, err, db_err, ret, issued, retry>>

\* err = col.Insert(&trec) assigns the loop body's err; return result, err
\* returns the function's err, last assigned by fetchToken
TokenizeInsert(p) ==
    /\ pc[p] = "insert"
    /\ LET trec == [Text |-> s[p], Token |-> token[p]]
           doc == Marshal(trec)
       IN \E e \in InsertErrors(store, doc) :
            /\ innerErr' = [innerErr EXCEPT ![p] = e]
            /\ token' = [token EXCEPT ![p] = IF IsDuplicateKeyError(e) THEN @ ELSE EmptyString]
            /\ retry' = [retry EXCEPT ![p] = IsDuplicateKeyError(e)]
            /\ IF e = Nil
               THEN /\ store' = Inserted(store, doc)
                    /\ pc' = [pc EXCEPT ![p] = "returned"]
                    /\ ret' = [ret EXCEPT ![p] = [val |-> token[p], err |-> err[p]]]
                    /\ issued' = issued \cup {<<s[p], token[p]>>}
               ELSE IF IsDuplicateKeyError(e)
               THEN /\ pc' = [pc EXCEPT ![p] = "fetch"]
                    /\ UNCHANGED <<store, ret, issued>>
               ELSE /\ pc' = [pc EXCEPT ![p] = "returned"]
                    /\ ret' = [ret EXCEPT ![p] = [val |-> EmptyString, err |-> err[p]]]
                    /\ UNCHANGED <<store, issued>>
    /\ UNCHANGED <<op, s, err, db_err, panicVal>>

\* ---------------------------------------------------------------- Detokenize
\* entry of Detokenize(t): orig, err, col, result and query are set up
DetokenizeCall(p, t) ==
    /\ Callable(p)
    /\ pc' = [pc EXCEPT ![p] = "find"]
    /\ op' = [op EXCEPT ![p] = "Detokenize"]
    /\ s' = [s EXCEPT ![p] = t]
    /\ err' = [err EXCEPT ![p] = Nil]
    /\ innerErr' = [innerErr EXCEPT ![p] = Nil]
    /\ token' = [token EXCEPT ![p] = EmptyString]
    /\ db_err' = [db_err EXCEPT ![p] = Nil]
    /\ ret' = [ret EXCEPT ![p] = NoRet]
    /\ retry' = [retry EXCEPT ![p] = FALSE]
    /\ UNCHANGED <<store, panicVal, issued>>

\* variant: the store's own error is handed to the caller
DetokenizeNotFoundErrRaw(dberr) == dberr

\* err = TokenNotFound in the NotFound case of the switch
DetokenizeNotFoundErr(dberr) == TokenNotFound

\* variant: the token field is handed back instead of the text
DetokenizeOrigToken(result) == result.Token

\* orig = result.Text
DetokenizeOrig(result) == result.Text

\* variant: a lookup that stores what it was asked for
DetokenizeFindStoring(p) ==
    /\ pc[p] = "find"
    /\ store' = Inserted(store, Marshal([Text |-> s[p], Token |-> s[p]]))
    /\ pc' = [pc EXCEPT ![p] = "returned"]
    /\ ret' = [ret EXCEPT ![p] = [val |-> s[p], err |-> Nil]]
    /\ UNCHANGED <<op, s, err, innerErr, token, db_err, panicVal, issued, retry>>

\* db_err := query.One(&result) and the switch on it
DetokenizeFind(p) ==
    /\ pc[p] = "find"
    /\ \E r \in FindOne(store, "token", s[p]) :
        /\ db_err' = [db_err EXCEPT ![p] = r.err]
        /\ IF r.err = NotFound
           THEN /\ err' = [err EXCEPT ![p] = DetokenizeNotFoundErr(r.err)]
                /\ pc' = [pc EXCEPT ![p] = "returned"]
                /\ ret' = [ret EXCEPT ![p] = [val |-> EmptyString, err |-> err'[p]]]
                /\ panicVal' = panicVal
           ELSE IF r.err # Nil
           THEN /\ pc' = [pc EXCEPT ![p] = "panicked"]
                /\ panicVal' = [panicVal EXCEPT ![p] = Sprint(err[p])]
                /\ UNCHANGED <<err, ret>>
           ELSE /\ pc' = [pc EXCEPT ![p] = "returned"]
                /\ ret' = [ret EXCEPT ![p] = [val |-> DetokenizeOrig(r.result), err |-> err[p]]]
                /\ UNCHANGED <<err, panicVal>>
    /\ UNCHANGED <<store, op, s, innerErr, token, issued, retry>>

\* a string that is no token: "?"
NoToken == <<63>>

\* the strings callers hand to Detokenize: every mintable token, and a string
\* that is none
DetokenizeArgs == Tokens \cup {NoToken}

Next ==
    \/ \E p \in Procs, x \in Originals : TokenizeCall(p, x)
    \/ \E p \in Procs : TokenizeFetch(p)
    \/ \E p \in Procs : TokenizeMint(p)
    \/ \E p \in Procs : TokenizeInsert(p)
    \/ \E p \in Procs, t \in DetokenizeArgs : DetokenizeCall(p, t)
    \/ \E p \in Procs : DetokenizeFind(p)

Spec == Init /\ [][Next]_vars

\* every caller that is inside a call keeps running
Fairness ==
    \A p \in Procs :
        /\ WF_vars(TokenizeFetch(p))
        /\ WF_vars(TokenizeMint(p))
        /\ WF_vars(TokenizeInsert(p))
        /\ WF_vars(DetokenizeFind(p))

FairSpec == Spec /\ Fairness

\* documents another writer may have left in the collection handed to
\* NewMongoTokenizer: they carry the key "original" that fetchToken queries
SeedDocs == {[original |-> x, token |-> k] : x \in Originals, k \in Tokens}

SeededInit ==
    /\ \E d \in SeedDocs : store = {d}
    /\ pc = [p \in Procs |-> "idle"]
    /\ op = [p \in Procs |-> "none"]
    /\ s = [p \in Procs |-> EmptyString]
    /\ err = [p \in Procs |-> Nil]
    /\ innerErr = [p \in Procs |-> Nil]
    /\ token = [p \in Procs |-> EmptyString]
    /\ db_err = [p \in Procs |-> Nil]
    /\ ret = [p \in Procs |-> NoRet]
    /\ panicVal = [p \in Procs |-> ""]
    /\ issued = {}
    /\ retry = [p \in Procs |-> FALSE]

\* the tokenizer set up on a collection that already holds such a document
SeededSpec == SeededInit /\ [][Next]_vars

TypeOK ==
    /\ \A d \in store : DOMAIN d = {"text", "token"}
    /\ \A p \in Procs : pc[p] \in {"idle", "fetch", "mint", "insert", "find", "returned", "panicked"}

\* ---------------------------------------------------------------- claims
\* the original a stored document stands for, as Detokenize reads it back
RecordOriginal(d) == Unmarshal(d).Text
RecordToken(d) == Unmarshal(d).Token

\* C1: any two Tokenize(x) calls that return a token return the same token.
C1_SameTokenForSameOriginal ==
    \A a \in issued : \A b \in issued : a[1] = b[1] => a[2] = b[2]

\* C2: the store holds at most one record per original value, whatever the
\* interleaving of the Tokenize calls.
C2_OneRecordPerOriginal ==
    \A d1 \in store : \A d2 \in store :
        RecordOriginal(d1) = RecordOriginal(d2) => d1 = d2

C3_TokenUnique ==
    \A d1 \in store : \A d2 \in store : RecordToken(d1) = RecordToken(d2) => d1 = d2

C3_Injective ==
    \A a \in issued : \A b \in issued : a[1] # b[1] => a[2] # b[2]

C3_CollisionRejected ==
    \A p \in Procs :
        (/\ pc[p] = "insert"
         /\ pc'[p] # "insert"
         /\ \E d \in store : RecordToken(d) = token[p])
        => /\ store' = store
           /\ issued' = issued
           /\ pc'[p] \in {"fetch", "returned"}
           /\ pc'[p] = "returned" => ret'[p].val = EmptyString

\* C3: no two records share a token, tokens returned for different originals
\* differ, and an insert whose candidate is already some record's token is
\* rejected without the candidate being returned.
C3_TokensNeverShared ==
    /\ [](C3_TokenUnique /\ C3_Injective)
    /\ [][C3_CollisionRejected]_vars

\* an insert has just been rejected whose candidate was the token of another
\* original's record, and tokens for two different originals have been
\* returned
C3_Witness ==
    /\ \E p \in Procs :
        /\ pc[p] = "fetch"
        /\ IsDuplicateKeyError(innerErr[p])
        /\ \E d \in store : RecordToken(d) = token[p] /\ RecordOriginal(d) # s[p]
    /\ \E a \in issued : \E b \in issued : a[1] # b[1]

\* the store answered the query of Detokenize (a record or NotFound)
StoreAnswered(e) == e \in {Nil, NotFound}

\* C4: once Tokenize(x) has returned t, a Detokenize(t) whose query the store
\* answers returns x with a nil error.
C4_RoundTrip ==
    [][\A p \in Procs :
        (pc[p] = "find" /\ pc'[p] # "find" /\ StoreAnswered(db_err'[p]))
        => \A a \in issued :
              a[2] = s[p] => /\ pc'[p] = "returned"
                             /\ ret'[p] = [val |-> a[1], err |-> Nil]]_vars

C4_Witness ==
    \E p \in Procs :
        /\ pc[p] = "returned"
        /\ op[p] = "Detokenize"
        /\ \E a \in issued : a[2] = s[p] /\ ret[p] = [val |-> a[1], err |-> Nil]
        /\ Cardinality(store) > 1

\* C5: a Detokenize(t) whose query the store answers, for a t that is no
\* stored record's token, returns an empty original and TokenNotFound.
C5_UnknownToken ==
    [][\A p \in Procs :
        (/\ pc[p] = "find" /\ pc'[p] # "find" /\ StoreAnswered(db_err'[p])
         /\ \A d \in store : RecordToken(d) # s[p])
        => /\ pc'[p] = "returned"
           /\ ret'[p] = [val |-> EmptyString, err |-> TokenNotFound]]_vars

C5_Witness ==
    \E p \in Procs :
        /\ pc[p] = "returned"
        /\ op[p] = "Detokenize"
        /\ store # {}
        /\ \A d \in store : RecordToken(d) # s[p]
        /\ ret[p] = [val |-> EmptyString, err |-> TokenNotFound]

\* C6: a Tokenize call whose lookup found no record and whose insert
\* succeeded returns the inserted token with a nil error.
C6_FreshInsertReturnsNilError ==
    \A p \in Procs :
        (pc[p] = "returned" /\ op[p] = "Tokenize" /\ err[p] = NotFound /\ innerErr[p] = Nil)
        => /\ ret[p].err = Nil
           /\ \E d \in store : RecordOriginal(d) = s[p] /\ RecordToken(d) = ret[p].val

\* C7: a Tokenize call whose lookup or insert failed with a store error other
\* than NotFound or a uniqueness conflict has returned exactly that error and
\* an empty token.
C7_StoreErrorReturnedUnchanged ==
    \A p \in Procs :
        (pc[p] = "returned" /\ op[p] = "Tokenize")
        => /\ err[p] \in OtherStoreErrors
                => ret[p] = [val |-> EmptyString, err |-> err[p]]
           /\ innerErr[p] \in OtherStoreErrors
                => ret[p] = [val |-> EmptyString, err |-> innerErr[p]]

\* C8 as stated: after a generator failure the call has returned the
\* generator's error with no token.
C8_GeneratorErrorReturned ==
    \A p \in Procs :
        (op[p] = "Tokenize" /\ innerErr[p] = GuidError)
        => pc[p] = "returned" /\ ret[p] = [val |-> EmptyString, err |-> GuidError]

\* C8 as amended: a generator failure ends the call at once by a panic that
\* carries the generator's error; nothing is inserted, nothing is returned
\* and the call never resumes.
C8_GeneratorErrorPanics ==
    /\ [][\A p \in Procs :
            (pc[p] = "mint" /\ innerErr'[p] = GuidError)
            => /\ pc'[p] = "panicked"
               /\ panicVal'[p] = Sprint(GuidError)
               /\ store' = store
               /\ issued' = issued
               /\ ret'[p] = ret[p]]_vars
    /\ [][\A p \in Procs : pc[p] = "panicked" => pc'[p] = "panicked"]_vars

C8_Witness ==
    \E p \in Procs :
        /\ pc[p] = "panicked"
        /\ op[p] = "Tokenize"
        /\ innerErr[p] = GuidError
        /\ panicVal[p] = Sprint(GuidError)
        /\ ret[p] = NoRet

\* C9: a Detokenize call whose query failed with a store error other than
\* NotFound has returned that error and an empty original.
C9_StoreErrorReturned ==
    \A p \in Procs :
        (op[p] = "Detokenize" /\ db_err[p] \in FindFailures)
        => pc[p] = "returned" /\ ret[p] = [val |-> EmptyString, err |-> db_err[p]]

\* C10: no call returns the store's NotFound error.
C10_NotFoundNeverReturned ==
    \A p \in Procs : pc[p] = "returned" => ret[p].err # NotFound

\* C11: a Detokenize call, whatever its outcome, leaves the stored records
\* as they were and never reaches the generator or an insert.
C11_DetokenizePure ==
    /\ [][\A p \in Procs :
            (pc[p] = "find" /\ pc'[p] # "find")
            => /\ store' = store
               /\ issued' = issued
               /\ pc'[p] \in {"returned", "panicked"}]_vars
    /\ [](\A p \in Procs : op[p] = "Detokenize" => pc[p] \in {"find", "returned", "panicked"})

\* one Detokenize has found its record while another has reported
\* TokenNotFound, with records in the store
C11_Witness ==
    /\ store # {}
    /\ \E p \in Procs : \E q \in Procs :
        /\ op[p] = "Detokenize" /\ pc[p] = "returned" /\ ret[p].err = Nil
        /\ ret[p].val \in Originals
        /\ op[q] = "Detokenize" /\ pc[q] = "returned" /\ ret[q].err = TokenNotFound

\* C12: every step leaves every stored record in place, unchanged, and adds
\* at most one record.
C12_AppendOnly ==
    [][/\ store \subseteq store'
       /\ Cardinality(store') <= Cardinality(store) + 1]_vars

\* the store has grown record by record while lookups went on
C12_Witness ==
    /\ Cardinality(store) >= 2
    /\ \E p \in Procs : op[p] = "Detokenize" /\ pc[p] = "returned"
    /\ \E p \in Procs : op[p] = "Tokenize" /\ pc[p] = "returned" /\ ret[p].val # EmptyString

InTokenize(p) == pc[p] \in {"fetch", "mint", "insert"}

\* the generator does not hand p already used candidates forever: from some
\* point on, no insert of p is rejected as a duplicate
NoEndlessCollisions(p) == <>[](~IsDuplicateKeyError(innerErr[p]))

\* C13 as stated: under fairness, and unless the generator collides forever,
\* every Tokenize call ends by returning a token or an error.
C13_TokenizeReturns ==
    \A p \in Procs :
        NoEndlessCollisions(p) => (InTokenize(p) ~> pc[p] = "returned")

\* C13 as amended: under fairness, and unless the generator collides
\* forever, every Tokenize call ends: it returns a token or an error, or it
\* panics on a generator error.
C13_TokenizeTerminates ==
    \A p \in Procs :
        NoEndlessCollisions(p) => (InTokenize(p) ~> pc[p] \in {"returned", "panicked"})

\* one concurrent Tokenize call has returned a token, another has ended in
\* the generator's panic
C13_Witness ==
    \E p \in Procs : \E q \in Procs :
        /\ op[p] = "Tokenize" /\ pc[p] = "returned" /\ ret[p].val # EmptyString
        /\ op[q] = "Tokenize" /\ pc[q] = "panicked"
        /\ Cardinality(store) >= 2

Resting(p) == pc[p] \in {"idle", "returned", "panicked"}

UniqueConflict == LastError(DuplicateKeyCode)

\* the moves of the state machine of one Tokenize call
C14_Step(p) ==
    /\ pc'[p] = "fetch" =>
          \/ pc[p] \in {"idle", "returned"} /\ op'[p] = "Tokenize"
          \/ pc[p] = "insert" /\ innerErr'[p] = UniqueConflict /\ s'[p] = s[p]
    /\ pc'[p] = "mint" => pc[p] = "fetch" /\ err'[p] = NotFound
    /\ pc'[p] = "insert" => pc[p] = "mint" /\ innerErr'[p] = Nil /\ err'[p] = NotFound
    /\ (pc[p] = "insert" /\ innerErr'[p] = UniqueConflict) => pc'[p] = "fetch"
    /\ (pc'[p] = "returned" /\ op'[p] = "Tokenize") =>
          \/ pc[p] = "fetch" /\ err'[p] = Nil /\ store' = store
          \/ pc[p] = "fetch" /\ err'[p] \in OtherStoreErrors /\ store' = store
          \/ pc[p] = "insert" /\ innerErr'[p] = Nil /\ store' # store
          \/ pc[p] = "insert" /\ innerErr'[p] \in OtherStoreErrors /\ store' = store
    /\ (pc'[p] = "panicked" /\ op'[p] = "Tokenize") =>
          pc[p] = "mint" /\ innerErr'[p] = GuidError /\ store' = store

C16_FoundReturnsExisting ==
    [][\A p \in Procs :
        (pc[p] = "fetch" /\ pc'[p] # "fetch" /\ err'[p] = Nil)
        => /\ pc'[p] = "returned"
           /\ store' = store
           /\ \E d \in Find(store, "original", s[p]) :
                 ret'[p] = [val |-> d["token"], err |-> Nil]]_vars

\* a Tokenize call has returned from a lookup that found a record
C16_Witness ==
    \E p \in Procs :
        /\ op[p] = "Tokenize" /\ pc[p] = "returned"
        /\ err[p] = Nil
        /\ \E d \in Find(store, "original", s[p]) : ret[p].val = d["token"]

\* C17: the record inserted for x is the one the lookup by original x finds,
\* and the unique index rejects a second record for x whatever its token.
C17_InsertedRecordIsLookedUp ==
    \A d \in store :
        /\ [token |-> RecordToken(d), err |-> Nil] \in fetchToken(store, RecordOriginal(d))
        /\ \A k \in Tokens :
              DuplicateKey(store, Marshal([Text |-> RecordOriginal(d), Token |-> k]))

====
